---------------------------- MODULE Spec2Model ----------------------------
(***************************************************************************)
(* Microlensing visualiser (src/main.py): the magnification heuristic      *)
(* calculate_magnification, the frame-building loop, the base figure and   *)
(* the playback of the frames.                                             *)
(*                                                                         *)
(* Python floats are modelled as decimal fixed-point numbers with five     *)
(* fractional digits: the integer n stands for the real n / ONE.  Sums and *)
(* differences are exact, products and quotients are rounded to the        *)
(* nearest unit, square roots are rounded down.  All intermediate values   *)
(* stay below 2^31.                                                        *)
(***************************************************************************)
EXTENDS Integers, Sequences, FiniteSets

(***************************************************************************)
(* Fixed-point arithmetic standing for Python float arithmetic.            *)
(***************************************************************************)
ONE == 10^5

Abs(a) == IF a < 0 THEN -a ELSE a

Sgn(a) == IF a < 0 THEN -1 ELSE 1

\* n / d as a fixed-point number (a decimal literal of the source)
Dec(n, d) == (n * ONE) \div d

\* The exact product of two non-negative integers a, b < 2^31 as the pair
\* <<hi, lo>> with a * b = hi * ONE + lo and 0 <= lo < ONE.
Wide(a, b) ==
    LET ah == a \div ONE
        al == a % ONE
        bh == b \div ONE
        bl == b % ONE
        X  == (al \div 1000) * bl
        Y  == (al % 1000) * bl
    IN  << ah * b + al * bh + ((X * 10 + (Y \div 100)) \div 1000),
           ((X % 100) * 1000 + Y) % ONE >>

\* float * float
Mul(a, b) ==
    LET w == Wide(Abs(a), Abs(b))
    IN  Sgn(a) * Sgn(b) * (w[1] + (IF 2 * w[2] >= ONE THEN 1 ELSE 0))

\* n more decimal digits of the quotient r / b (long division), as the
\* pair <<quotient digits, remainder>>
RECURSIVE DivDigits(_, _, _, _)
DivDigits(q, r, b, n) ==
    IF n = 0 THEN <<q, r>>
    ELSE DivDigits(q * 10 + ((r * 10) \div b), (r * 10) % b, b, n - 1)

\* float / float, b # 0
Div(a, b) ==
    LET x == Abs(a)
        y == Abs(b)
        d == DivDigits(x \div y, x % y, y, 5)
    IN  Sgn(a) * Sgn(b) * (d[1] + (IF 2 * d[2] >= y THEN 1 ELSE 0))

\* <<hi, lo>> pairs: sum and comparison
WideAdd(v, w) ==
    << v[1] + w[1] + ((v[2] + w[2]) \div ONE), (v[2] + w[2]) % ONE >>

WideLeq(v, w) == v[1] < w[1] \/ (v[1] = w[1] /\ v[2] <= w[2])

\* the largest r in lo..hi with r * r <= w (bisection)
RECURSIVE ISqrt(_, _, _)
ISqrt(w, lo, hi) ==
    IF lo >= hi THEN lo
    ELSE LET mid == (lo + hi + 1) \div 2
         IN  IF WideLeq(Wide(mid, mid), w)
             THEN ISqrt(w, mid, hi)
             ELSE ISqrt(w, lo, mid - 1)

SqrtMax == 2^21

\* np.sqrt of a non-negative float
Sqrt(x) == ISqrt(<<x, 0>>, 0, SqrtMax)

\* np.linalg.norm of a 2-vector
Norm(v) ==
    ISqrt(WideAdd(Wide(Abs(v[1]), Abs(v[1])), Wide(Abs(v[2]), Abs(v[2]))),
          0, SqrtMax)

\* float / int, n > 0
DivInt(a, n) == Sgn(a) * ((2 * Abs(a) + n) \div (2 * n))

Max(a, b) == IF a >= b THEN a ELSE b

Min(a, b) == IF a <= b THEN a ELSE b

(***************************************************************************)
(* np.pi, np.radians, np.cos and np.sin.  The angle is reduced to the      *)
(* first octant and the Taylor series is summed there (Horner form); the   *)
(* omitted terms are below one unit.                                       *)
(***************************************************************************)
PI == 314159

HALF_PI == 157080

QUARTER_PI == 78540

THREE_HALF_PI == 471239

TWO_PI == 628319

\* sin y for 0 <= y <= pi/4
SinSeries(y) ==
    LET y2 == Mul(y, y)
    IN  Mul(y, ONE - Mul(DivInt(y2, 6),
                 ONE - Mul(DivInt(y2, 20), ONE - DivInt(y2, 42))))

\* cos y for 0 <= y <= pi/4
CosSeries(y) ==
    LET y2 == Mul(y, y)
    IN  ONE - Mul(DivInt(y2, 2),
              ONE - Mul(DivInt(y2, 12),
                    ONE - Mul(DivInt(y2, 30), ONE - DivInt(y2, 56))))

\* <<cos y, sin y>> for 0 <= y <= pi/2
CosSinQuadrant(y) ==
    IF y <= QUARTER_PI
    THEN <<CosSeries(y), SinSeries(y)>>
    ELSE <<SinSeries(HALF_PI - y), CosSeries(HALF_PI - y)>>

\* <<np.cos(x), np.sin(x)>> for 0 <= x <= 2 pi
CosSin(x) ==
    IF x <= HALF_PI THEN CosSinQuadrant(x)
    ELSE IF x <= PI
         THEN LET cs == CosSinQuadrant(PI - x) IN <<-cs[1], cs[2]>>
    ELSE IF x <= THREE_HALF_PI
         THEN LET cs == CosSinQuadrant(x - PI) IN <<-cs[1], -cs[2]>>
    ELSE LET cs == CosSinQuadrant(Max(TWO_PI - x, 0)) IN <<cs[1], -cs[2]>>

\* np.radians(deg) for an integer number of degrees
Radians(deg) == DivInt(deg * PI, 180)

(***************************************************************************)
(* Simulation constants.                                                   *)
(***************************************************************************)
R_STAR == Dec(5, 10)

R_ORBIT == 5 * ONE

R_OBSERVER_DIST == 10 * ONE

\* vector helpers (np.array arithmetic on 2-vectors)
VSub(v, w) == <<v[1] - w[1], v[2] - w[2]>>

VAdd(v, w) == <<v[1] + w[1], v[2] + w[2]>>

VScale(k, v) == <<Mul(k, v[1]), Mul(k, v[2])>>

Dot(v, w) == Mul(v[1], w[1]) + Mul(v[2], w[2])

\* ImpactParameter measuring the distance to the segment observer -> star
\* (the projection clipped to the segment) instead of the infinite line
ImpactParameter_segment(planet_pos, observer_pos, star_pos) ==
    LET line_of_sight_vec  == VSub(star_pos, observer_pos)
        los_norm           == Norm(line_of_sight_vec)
        line_of_sight_unit == <<Div(line_of_sight_vec[1], los_norm),
                                Div(line_of_sight_vec[2], los_norm)>>
        vec_op             == VSub(planet_pos, observer_pos)
        proj_length        == Min(los_norm,
                                  Max(0, Dot(vec_op, line_of_sight_unit)))
        closest_point_on_los ==
            VAdd(observer_pos, VScale(proj_length, line_of_sight_unit))
        perpendicular_dist == Norm(VSub(planet_pos, closest_point_on_los))
        einstein_radius_proxy == Mul(R_ORBIT, Dec(1, 10))
    IN  Div(perpendicular_dist, einstein_radius_proxy)

\* the impact parameter u: the planet's perpendicular distance to the line
\* of sight observer -> star, over the Einstein-radius proxy
ImpactParameter(planet_pos, observer_pos, star_pos) ==
    LET line_of_sight_vec  == VSub(star_pos, observer_pos)
        los_norm           == Norm(line_of_sight_vec)
        line_of_sight_unit == <<Div(line_of_sight_vec[1], los_norm),
                                Div(line_of_sight_vec[2], los_norm)>>
        vec_op             == VSub(planet_pos, observer_pos)
        proj_length        == Dot(vec_op, line_of_sight_unit)
        closest_point_on_los ==
            VAdd(observer_pos, VScale(proj_length, line_of_sight_unit))
        perpendicular_dist == Norm(VSub(planet_pos, closest_point_on_los))
        einstein_radius_proxy == Mul(R_ORBIT, Dec(1, 10))
    IN  Div(perpendicular_dist, einstein_radius_proxy)

\* the near-alignment threshold on u
U_EPSILON == Dec(1, 1000)

\* magnification for very close alignment (u <= 0.001)
ClampMagnification(planet_mass_ratio) ==
    ONE + planet_mass_ratio * 1000

\* FormulaMagnification with the mass-ratio scale inverted (0.01 / ratio)
FormulaMagnification_inverted(u, planet_mass_ratio) ==
    LET u2  == Mul(u, u)
        raw == Div(u2 + 2 * ONE, Mul(u, Sqrt(u2 + 4 * ONE)))
    IN  ONE + Mul(raw - ONE, Div(Dec(1, 100), planet_mass_ratio))

\* point-source point-lens formula, rescaled by the mass ratio (u > 0.001)
FormulaMagnification(u, planet_mass_ratio) ==
    LET u2  == Mul(u, u)
        raw == Div(u2 + 2 * ONE, Mul(u, Sqrt(u2 + 4 * ONE)))
    IN  ONE + Mul(raw - ONE, Div(planet_mass_ratio, Dec(1, 100)))

\* the two branches on u
LensMagnification(u, planet_mass_ratio) ==
    IF u <= U_EPSILON
    THEN ClampMagnification(planet_mass_ratio)
    ELSE FormulaMagnification(u, planet_mass_ratio)

\* the gate: the planet is within 1.5 orbit radii of the origin
NearOrbit(planet_pos) == Norm(planet_pos) < Mul(R_ORBIT, Dec(15, 10))

\* calculate_magnification returning the brightening in excess of the
\* baseline instead of the multiplier
calculate_magnification_excess(planet_pos, observer_pos, star_pos, planet_mass_ratio) ==
    LET magnification ==
            IF NearOrbit(planet_pos)
            THEN LensMagnification(
                     ImpactParameter(planet_pos, observer_pos, star_pos),
                     planet_mass_ratio)
            ELSE ONE
    IN  Max(ONE, magnification) - ONE

calculate_magnification(planet_pos, observer_pos, star_pos, planet_mass_ratio) ==
    LET magnification ==
            IF NearOrbit(planet_pos)
            THEN LensMagnification(
                     ImpactParameter(planet_pos, observer_pos, star_pos),
                     planet_mass_ratio)
            ELSE ONE
    IN  Max(ONE, magnification)

\* the observer's fixed position
ObserverPos(deg) ==
    LET cs == CosSin(Radians(deg))
    IN  <<Mul(R_OBSERVER_DIST, cs[1]), Mul(R_OBSERVER_DIST, cs[2])>>

\* the planet's position at time index t of an orbit of period steps
PlanetPos(t, period) ==
    LET cs == CosSin(DivInt(TWO_PI * t, period))
    IN  <<Mul(R_ORBIT, cs[1]), Mul(R_ORBIT, cs[2])>>

star_pos == <<0, 0>>

(***************************************************************************)
(* The sidebar sliders: the values a run can start from.  The sliders      *)
(* admit every step of their ranges; the sets below sample them, both ends *)
(* of each range included.                                                 *)
(***************************************************************************)
PERIOD_MIN == 100

PERIOD_MAX == 500

ANGLE_MIN == 0

ANGLE_MAX == 360

MASS_RATIO_MIN == Dec(1, 1000)

MASS_RATIO_MAX == Dec(1, 10)

Periods == {p \in {100, 200, 500} : PERIOD_MIN <= p /\ p <= PERIOD_MAX}

\* the periods of the runs followed on the light curve alone
CurvePeriods ==
    {p \in {100, 101, 200, 499, 500} : PERIOD_MIN <= p /\ p <= PERIOD_MAX}

Angles == {a \in {0, 37, 90, 360} : ANGLE_MIN <= a /\ a <= ANGLE_MAX}

MassRatios ==
    {m \in {Dec(1, 1000), Dec(1, 100), Dec(1, 10)} :
        MASS_RATIO_MIN <= m /\ m <= MASS_RATIO_MAX}

(***************************************************************************)
(* Traces.  A go.Scatter is the record of the properties the source sets:  *)
(* x, y, mode and the marker or line colour; a trace of the figure has a   *)
(* name as well.                                                           *)
(***************************************************************************)
Scatter(x, y, mode, color) == [x |-> x, y |-> y, mode |-> mode, color |-> color]

Named(trace, name) ==
    [x |-> trace.x, y |-> trace.y, mode |-> trace.mode, color |-> trace.color,
     name |-> name]

\* list[:n]
Slice(list, n) == SubSeq(list, 1, Min(n, Len(list)))

\* np.arange(n)
Arange(n) == [i \in 1..n |-> i - 1]

\* FrameData slicing the curve one short ([:t] for [:t+1])
FrameData_short(planet, times, lightcurve, t) ==
    << Scatter(<<star_pos[1]>>, <<star_pos[2]>>, "markers", "gold"),
       Scatter(<<planet[1]>>, <<planet[2]>>, "markers", "blue"),
       Scatter(Slice(times, t), Slice(lightcurve, t), "lines", "green") >>

\* the three traces of the frame for time index t
FrameData(planet, times, lightcurve, t) ==
    << Scatter(<<star_pos[1]>>, <<star_pos[2]>>, "markers", "gold"),
       Scatter(<<planet[1]>>, <<planet[2]>>, "markers", "blue"),
       Scatter(Slice(times, t + 1), Slice(lightcurve, t + 1), "lines", "green") >>

\* min(list[lo..hi]) and max(list[lo..hi]), lo <= hi (by halves)
RECURSIVE MinOver(_, _, _)
MinOver(list, lo, hi) ==
    IF lo = hi THEN list[lo]
    ELSE LET mid == (lo + hi) \div 2
         IN  Min(MinOver(list, lo, mid), MinOver(list, mid + 1, hi))

RECURSIVE MaxOver(_, _, _)
MaxOver(list, lo, hi) ==
    IF lo = hi THEN list[lo]
    ELSE LET mid == (lo + hi) \div 2
         IN  Max(MaxOver(list, lo, mid), MaxOver(list, mid + 1, hi))

\* min(...) and max(...) of a non-empty list
ListMin(list) == MinOver(list, 1, Len(list))

ListMax(list) == MaxOver(list, 1, Len(list))

\* YAxisRange taken from the first value alone
YAxisRange_first(lightcurve) ==
    << Min(Dec(9, 10), lightcurve[1] - Dec(5, 100)),
       Max(Dec(15, 10), lightcurve[1] + Dec(5, 100)) >>

\* the range of the brightness plot's y axis
YAxisRange(lightcurve) ==
    << Min(Dec(9, 10), ListMin(lightcurve) - Dec(5, 100)),
       Max(Dec(15, 10), ListMax(lightcurve) + Dec(5, 100)) >>

\* the traces of the base figure, in the order of the add_trace calls
BaseFigure(observer, lightcurve) ==
    << Named(Scatter(<<star_pos[1]>>, <<star_pos[2]>>, "markers", "gold"),
             "star"),
       Named(Scatter(<<R_ORBIT>>, <<0>>, "markers", "blue"), "planet"),
       Named(Scatter(<<observer[1]>>, <<observer[2]>>, "markers", "purple"),
             "observer"),
       Named(Scatter(<<observer[1], star_pos[1]>>, <<observer[2], star_pos[2]>>,
                     "lines", "red"), "line of sight"),
       Named(Scatter(<<0>>, <<lightcurve[1]>>, "lines", "green"),
             "brightness") >>

\* Plotly's animate: a frame that names no traces applies its i-th trace to
\* the figure's i-th trace, which takes the properties the frame's trace sets
ApplyFrame(figure, frame) ==
    [i \in 1..Len(figure) |->
        IF i <= Len(frame.data)
        THEN Named(frame.data[i], figure[i].name)
        ELSE figure[i]]

VARIABLES
    orbital_period,      \* the period slider
    planet_mass_ratio,   \* the mass-ratio slider
    observer_angle_deg,  \* the observer-angle slider
    observer_pos,        \* the observer's position
    pc,                  \* "loop", "shown"; "curve", "plotted"; "call"
    t,                   \* the loop variable: the next time index
    frames_data,         \* the frames built so far
    lightcurve_values,   \* the light curve built so far
    fig_data,            \* the figure's traces as displayed
    y_range,             \* the brightness plot's y range
    displayed,           \* the index of the frame displayed, -1: none
    calls,               \* harness: the two argument lists
    results              \* harness: the two results, <<>> before the call

vars == << orbital_period, planet_mass_ratio, observer_angle_deg, observer_pos,
           pc, t, frames_data, lightcurve_values, fig_data, y_range, displayed,
           calls, results >>

config == <<orbital_period, planet_mass_ratio, observer_angle_deg, observer_pos>>

\* the script up to the loop: the sliders' values, the empty lists, the
\* observer's position
Init ==
    /\ orbital_period \in Periods
    /\ planet_mass_ratio \in MassRatios
    /\ observer_angle_deg \in Angles
    /\ observer_pos = ObserverPos(observer_angle_deg)
    /\ pc = "loop"
    /\ t = 0
    /\ frames_data = <<>>
    /\ lightcurve_values = <<>>
    /\ fig_data = <<>>
    /\ y_range = <<>>
    /\ displayed = -1
    /\ calls = <<>>
    /\ results = <<>>

\* InTimes with the end of the range included
InTimes_inclusive(time, period) == time <= period

\* for t in times, times = np.arange(orbital_period): t is in range
InTimes(time, period) == time < period

\* the magnification of the planet at position planet, as the loop calls it
CurrentMagnification(planet) ==
    calculate_magnification(planet, observer_pos, star_pos, planet_mass_ratio)

\* one iteration of the loop over times
LoopStep ==
    /\ pc = "loop"
    /\ InTimes(t, orbital_period)
    /\ LET planet == PlanetPos(t, orbital_period)
           current_magnification == CurrentMagnification(planet)
           lightcurve == Append(lightcurve_values, current_magnification)
       IN  /\ lightcurve_values' = lightcurve
           /\ frames_data' =
                  Append(frames_data,
                         [data |-> FrameData(planet, Arange(orbital_period),
                                             lightcurve, t),
                          name |-> <<"frame", t>>])
    /\ t' = t + 1
    /\ UNCHANGED <<config, pc, fig_data, y_range, displayed, calls, results>>

\* the loop is over: the base figure, its axes, fig.frames and the chart
BuildFigure ==
    /\ pc = "loop"
    /\ ~InTimes(t, orbital_period)
    /\ fig_data' = BaseFigure(observer_pos, lightcurve_values)
    /\ y_range' = YAxisRange(lightcurve_values)
    /\ pc' = "shown"
    /\ UNCHANGED <<config, t, frames_data, lightcurve_values, displayed,
                   calls, results>>

\* the Play button: the next frame is applied to the figure
PlayFrame ==
    /\ pc = "shown"
    /\ displayed + 1 < Len(frames_data)
    /\ displayed' = displayed + 1
    /\ fig_data' = ApplyFrame(fig_data, frames_data[displayed + 2])
    /\ UNCHANGED <<config, pc, t, frames_data, lightcurve_values, y_range,
                   calls, results>>

Next == LoopStep \/ BuildFigure \/ PlayFrame

Spec == Init /\ [][Next]_vars

(***************************************************************************)
(* The same run followed on the light curve alone: the loop's iterations   *)
(* append the magnifications, the frames and the figure's traces are left  *)
(* out, the y range is set when the loop is over.  The states stay small   *)
(* enough for the long periods.                                            *)
(***************************************************************************)
InitCurve ==
    /\ orbital_period \in CurvePeriods
    /\ planet_mass_ratio \in MassRatios
    /\ observer_angle_deg \in Angles
    /\ observer_pos = ObserverPos(observer_angle_deg)
    /\ pc = "curve"
    /\ t = 0
    /\ frames_data = <<>>
    /\ lightcurve_values = <<>>
    /\ fig_data = <<>>
    /\ y_range = <<>>
    /\ displayed = -1
    /\ calls = <<>>
    /\ results = <<>>

\* one iteration of the loop, the light curve alone
CurveStep ==
    /\ pc = "curve"
    /\ InTimes(t, orbital_period)
    /\ lightcurve_values' =
           Append(lightcurve_values,
                  CurrentMagnification(PlanetPos(t, orbital_period)))
    /\ t' = t + 1
    /\ UNCHANGED <<config, pc, frames_data, fig_data, y_range, displayed,
                   calls, results>>

\* the loop is over: the brightness plot's y range
CurvePlotted ==
    /\ pc = "curve"
    /\ ~InTimes(t, orbital_period)
    /\ y_range' = YAxisRange(lightcurve_values)
    /\ pc' = "plotted"
    /\ UNCHANGED <<config, t, frames_data, lightcurve_values, fig_data,
                   displayed, calls, results>>

NextCurve == CurveStep \/ CurvePlotted

SpecCurve == InitCurve /\ [][NextCurve]_vars

(***************************************************************************)
(* calculate_magnification as a function: two calls on arguments drawn     *)
(* from a grid of planet positions (on and off the line of sight, inside   *)
(* and outside the gate radius) and the mass ratios, one observer.         *)
(***************************************************************************)
ProbeXs == {0, Dec(1, 100), Dec(2, 10), 5 * ONE}

ProbeYs == {-5 * ONE, 0, Dec(1, 100), 5 * ONE, 8 * ONE}

ProbeAngles == {0, 90}

ProbePositions == {<<x, y>> : x \in ProbeXs, y \in ProbeYs}

Args(planet, observer, star, ratio) ==
    [planet_pos |-> planet, observer_pos |-> observer, star_pos |-> star,
     planet_mass_ratio |-> ratio]

InitCalc ==
    /\ orbital_period = PERIOD_MIN
    /\ planet_mass_ratio = MASS_RATIO_MIN
    /\ observer_angle_deg \in ProbeAngles
    /\ observer_pos = ObserverPos(observer_angle_deg)
    /\ pc = "call"
    /\ t = 0
    /\ frames_data = <<>>
    /\ lightcurve_values = <<>>
    /\ fig_data = <<>>
    /\ y_range = <<>>
    /\ displayed = -1
    /\ \E p1 \in ProbePositions, p2 \in ProbePositions,
          m1 \in MassRatios, m2 \in MassRatios :
          calls = << Args(p1, observer_pos, star_pos, m1),
                     Args(p2, observer_pos, star_pos, m2) >>
    /\ results = <<>>

\* the next call of calculate_magnification
Call ==
    /\ pc = "call"
    /\ Len(results) < Len(calls)
    /\ LET a == calls[Len(results) + 1]
       IN  results' =
               Append(results,
                      calculate_magnification(a.planet_pos, a.observer_pos,
                                              a.star_pos, a.planet_mass_ratio))
    /\ UNCHANGED <<config, pc, t, frames_data, lightcurve_values, fig_data,
                   y_range, displayed, calls>>

NextCalc == Call

SpecCalc == InitCalc /\ [][NextCalc]_vars

\* the impact parameter of a call's geometry
CallU(a) == ImpactParameter(a.planet_pos, a.observer_pos, a.star_pos)

(***************************************************************************)
(* Properties.                                                             *)
(***************************************************************************)
\* the brightness curve stored in the i-th frame
Curve(i) == frames_data[i].data[3].y

\* time index time puts the planet exactly on the observer's line of
\* sight: its orbital angle 360 time / period equals the observer angle
Aligned(time) ==
    (360 * time - observer_angle_deg * orbital_period)
        % (360 * orbital_period) = 0

\* the run is over and the figure is built
RunDone == pc = "shown"

\* the loop is over, in the run followed on the light curve alone
CurveDone == pc = "plotted"

\* C1: every magnification appended to the light curve is at least 1.0,
\* whichever branch produced it, and so is the value calculate_magnification
\* returns to the run's observer for a planet outside the gate radius.
C1_MagnificationAtLeastOne ==
    /\ \A i \in 1..Len(lightcurve_values) : lightcurve_values[i] >= ONE
    /\ \A p \in ProbePositions :
          ~NearOrbit(p) =>
              calculate_magnification(p, observer_pos, star_pos,
                                      planet_mass_ratio) >= ONE

\* C1 witness: a finished run whose curve holds a value of the u <= 0.001
\* branch and a value of the formula branch above the baseline.
C1_Witness ==
    /\ CurveDone
    /\ \E i \in 1..Len(lightcurve_values) :
          lightcurve_values[i] = ClampMagnification(planet_mass_ratio)
    /\ \E j \in 1..Len(lightcurve_values) :
          /\ lightcurve_values[j] > ONE
          /\ lightcurve_values[j] # ClampMagnification(planet_mass_ratio)

\* C2: the curve stored in the frame for time index t has t + 1 values, its
\* last value is the magnification at t, for t >= 1 it is the previous
\* frame's curve with that value appended, and no step alters a frame
\* already stored.
C2_CumulativeCurve ==
    /\ [](\A i \in 1..Len(frames_data) :
             /\ Len(Curve(i)) = i
             /\ Curve(i)[i] = lightcurve_values[i]
             /\ i >= 2 => Curve(i) = Append(Curve(i - 1), lightcurve_values[i]))
    /\ [][SubSeq(frames_data', 1, Len(frames_data)) = frames_data]_vars

\* C2 witness: a finished run of at least two frames, the last of which
\* extends the one before it by one value.
C2_Witness ==
    /\ RunDone
    /\ Len(frames_data) = orbital_period
    /\ Len(Curve(orbital_period)) = Len(Curve(orbital_period - 1)) + 1

\* C3 (as claimed): for a fixed mass ratio the returned magnification is
\* non-increasing in the impact parameter u, across the u <= 0.001 threshold
\* as well.
C3_MonotoneInU ==
    (/\ Len(results) = 2
     /\ calls[1].planet_mass_ratio = calls[2].planet_mass_ratio
     /\ NearOrbit(calls[1].planet_pos)
     /\ NearOrbit(calls[2].planet_pos)
     /\ CallU(calls[1]) <= CallU(calls[2]))
    => results[1] >= results[2]

\* C4 (as claimed): in a finished run, the magnification at a time index
\* that puts the planet exactly on the line of sight is the maximum of the
\* run.
C4_AlignedIsMaximum ==
    CurveDone =>
        \A time \in 0..(orbital_period - 1) :
            Aligned(time) =>
                \A j \in 1..Len(lightcurve_values) :
                    lightcurve_values[j] <= lightcurve_values[time + 1]

\* C5: for the same planet, observer and star positions the returned
\* magnification is non-decreasing in the mass ratio.
C5_MonotoneInMassRatio ==
    (/\ Len(results) = 2
     /\ calls[1].planet_pos = calls[2].planet_pos
     /\ calls[1].observer_pos = calls[2].observer_pos
     /\ calls[1].planet_mass_ratio <= calls[2].planet_mass_ratio)
    => results[1] <= results[2]

\* C5 witness: the same geometry in the formula branch called with a
\* smaller and a larger mass ratio, the second result strictly larger.
C5_Witness ==
    /\ Len(results) = 2
    /\ calls[1].planet_pos = calls[2].planet_pos
    /\ NearOrbit(calls[1].planet_pos)
    /\ CallU(calls[1]) > U_EPSILON
    /\ calls[1].planet_mass_ratio < calls[2].planet_mass_ratio
    /\ results[1] < results[2]

\* the three parameters are in the ranges the specification gives
ValidConfig ==
    /\ PERIOD_MIN <= orbital_period /\ orbital_period <= PERIOD_MAX
    /\ MASS_RATIO_MIN <= planet_mass_ratio
    /\ planet_mass_ratio <= MASS_RATIO_MAX
    /\ 0 <= observer_angle_deg /\ observer_angle_deg < 360

\* C6 (as claimed): a configuration with a parameter out of range yields no
\* frame, no light-curve value and no figure.
C6_InvalidConfigRejected ==
    \/ ValidConfig
    \/ (frames_data = <<>> /\ lightcurve_values = <<>> /\ ~RunDone)

\* C7: the loop has handled the time indices 0 .. t-1 in order, one frame
\* and one light-curve value each (none before the first iteration), the
\* frame at position i named frame_(i-1); t never passes the period, so the
\* loop ends after at most orbital_period iterations, and when the figure
\* is built there are exactly orbital_period frames.
C7_OneFramePerTimeIndex ==
    /\ Len(frames_data) = t
    /\ Len(lightcurve_values) = t
    /\ t <= orbital_period
    /\ \A i \in 1..Len(frames_data) : frames_data[i].name = <<"frame", i - 1>>
    /\ RunDone => Len(frames_data) = orbital_period

\* C7 witness: the finished run of the shortest period, its last frame
\* named after the last time index.
C7_Witness ==
    /\ RunDone
    /\ orbital_period = PERIOD_MIN
    /\ Len(frames_data) = PERIOD_MIN
    /\ frames_data[PERIOD_MIN].name = <<"frame", PERIOD_MIN - 1>>

\* C8: the y range is [min(0.9, minMag - 0.05), max(1.5, maxMag + 0.05)]
\* over the values of the finished run, so every value of every frame lies
\* in it with a margin of 0.05 on each side.
C8_YAxisRange ==
    RunDone =>
        LET lo == y_range[1]
            hi == y_range[2]
            n  == Len(lightcurve_values)
        IN  /\ lo <= Dec(9, 10)
            /\ hi >= Dec(15, 10)
            /\ \A i \in 1..n :
                  /\ lo + Dec(5, 100) <= lightcurve_values[i]
                  /\ lightcurve_values[i] <= hi - Dec(5, 100)
            /\ lo = Dec(9, 10)
                  \/ \E i \in 1..n : lo = lightcurve_values[i] - Dec(5, 100)
            /\ hi = Dec(15, 10)
                  \/ \E i \in 1..n : hi = lightcurve_values[i] + Dec(5, 100)
            /\ \A i \in 1..Len(frames_data) :
                  Curve(i) = SubSeq(lightcurve_values, 1, i)

\* C8 witness: a finished run whose upper bound comes from the largest
\* magnification and whose lower bound is the floor 0.9.
C8_Witness ==
    /\ RunDone
    /\ y_range[1] = Dec(9, 10)
    /\ y_range[2] > Dec(15, 10)
    /\ \E i \in 1..Len(lightcurve_values) :
          y_range[2] = lightcurve_values[i] + Dec(5, 100)

\* C9 (as claimed): the trace at each position of every frame is of the
\* kind (mode and colour) of the base figure's trace at that position, and
\* displaying frames leaves the observer marker and the line of sight as
\* the base figure has them.
C9_FramesMatchFigure ==
    RunDone =>
        LET base == BaseFigure(observer_pos, lightcurve_values)
        IN  /\ \A i \in 1..Len(frames_data) :
                  \A k \in 1..Len(frames_data[i].data) :
                      /\ frames_data[i].data[k].mode = base[k].mode
                      /\ frames_data[i].data[k].color = base[k].color
            /\ fig_data[3] = base[3]
            /\ fig_data[4] = base[4]

\* the values half an orbit apart, for an even period
HalfOrbitPairs ==
    IF orbital_period % 2 = 0 /\ CurveDone
    THEN {<<lightcurve_values[i], lightcurve_values[i + orbital_period \div 2]>> :
             i \in 1..(orbital_period \div 2)}
    ELSE {}

=============================================================================
